---------------------------- MODULE Spec2Model ----------------------------
(* A model of the XML combination engine of src/xml_combiner.py: the     *)
(* XMLCombiner object, one run of run(), and the element fingerprint.    *)
(*                                                                       *)
(* Strings are sequences of one-character strings, so that slicing       *)
(* (prefix[6:]), startswith, sorting and '|'.join are computed.          *)
EXTENDS Integers, Sequences, FiniteSets, TLC

(* ------------------------------ bounds ------------------------------ *)
MaxFiles == 2
MaxRetries == 2

(* ------------------------------ strings ----------------------------- *)
\* The characters used by the documents of the model, in code point order.
Alphabet == <<".", "1", "2", "3", "4", "5", "6", "7", "8", "9", ":", "=",
              "L", "M", "X", "_", "a", "b", "c", "d", "e", "i", "k", "l", "m",
              "n", "o", "p", "q", "r", "s", "t", "u", "v", "w", "x", "|">>

Ord(ch) == CHOOSE i \in 1..Len(Alphabet) : Alphabet[i] = ch

RECURSIVE StrLess(_, _)
\* Python's < on str: lexicographic by code point, a proper prefix is less.
StrLess(s, t) ==
    IF t = <<>> THEN FALSE
    ELSE IF s = <<>> THEN TRUE
    ELSE IF Ord(Head(s)) # Ord(Head(t)) THEN Ord(Head(s)) < Ord(Head(t))
    ELSE StrLess(Tail(s), Tail(t))

startswith(s, p) == Len(s) >= Len(p) /\ SubSeq(s, 1, Len(p)) = p

RECURSIVE join(_, _)
\* sep.join(parts)
join(sep, parts) ==
    IF parts = <<>> THEN <<>>
    ELSE IF Len(parts) = 1 THEN parts[1]
    ELSE parts[1] \o sep \o join(sep, Tail(parts))

Range(f) == {f[x] : x \in DOMAIN f}

(* ------------------------------ elements ---------------------------- *)
\* xml.etree.ElementTree.Element: tag, text ("" for None), attrib as the
\* ordered items of the dict, children in document order.
El(tag, text, attrib, children) ==
    [tag |-> tag, text |-> text, attrib |-> attrib, children |-> children]

RECURSIVE iter(_)
RECURSIVE iterAll(_)
\* Element.iter(): the element, then its descendants, in document order.
iter(e) == <<e>> \o iterAll(e.children)
iterAll(es) == IF es = <<>> THEN <<>> ELSE iter(Head(es)) \o iterAll(Tail(es))

(* --------------------------- fingerprint ---------------------------- *)
RECURSIVE insertItem(_, _)
insertItem(it, sortedItems) ==
    IF sortedItems = <<>> THEN <<it>>
    ELSE IF StrLess(it[1], Head(sortedItems)[1])
         THEN <<it>> \o sortedItems
         ELSE <<Head(sortedItems)>> \o insertItem(it, Tail(sortedItems))

RECURSIVE sorted(_)
\* sorted(elem.attrib.items()): the keys of a dict are distinct.
sorted(items) ==
    IF items = <<>> THEN <<>> ELSE insertItem(Head(items), sorted(Tail(items)))

RECURSIVE element_to_string(_)
RECURSIVE childStrings(_)
RECURSIVE attribStrings(_)
attribStrings(items) ==
    IF items = <<>> THEN <<>>
    ELSE <<Head(items)[1] \o <<"=">> \o Head(items)[2]>>
         \o attribStrings(Tail(items))
childStrings(es) ==
    IF es = <<>> THEN <<>>
    ELSE <<element_to_string(Head(es))>> \o childStrings(Tail(es))
element_to_string(elem) ==
    join(<<"|">>, <<elem.tag \o <<":">> \o elem.text>>
                  \o attribStrings(sorted(elem.attrib))
                  \o childStrings(elem.children))

\* hashlib.md5(...).hexdigest(): a digest of the canonical string; digests of
\* different strings are taken to differ.
md5(content) == <<"md5", content>>

_get_element_hash(element) == md5(element_to_string(element))


(* ------------------------ namespace registry ------------------------ *)
xmlns == <<"x", "m", "l", "n", "s">>

Digits == {"0", "1", "2", "3", "4", "5", "6", "7", "8", "9"}

\* xml.etree.ElementTree.register_namespace raises ValueError when
\* re.match(r"ns\d+$", prefix): the prefix format it reserves for itself.
reserved(prefix) ==
    /\ Len(prefix) >= 3
    /\ prefix[1] = "n" /\ prefix[2] = "s"
    /\ \A i \in 3..Len(prefix) : prefix[i] \in Digits

\* 'xmlns' -> '', anything else that starts with 'xmlns' -> key[6:]
prefix_of(key) == IF key = xmlns THEN <<>> ELSE SubSeq(key, 7, Len(key))

RECURSIVE attribItems(_)
\* The (key, value) pairs the two loops of _register_namespaces visit, in
\* order: element.attrib.items(), then child.attrib.items() for each child
\* of element.iter() (which starts with the element itself).
attribItems(es) ==
    IF es = <<>> THEN <<>> ELSE Head(es).attrib \o attribItems(Tail(es))

visited(element) == element.attrib \o attribItems(iter(element))

\* Mutant: the guard looks at the prefix, not at the URI.
register_one_by_prefix(map, key, uri) ==
    IF startswith(key, xmlns) /\ prefix_of(key) \notin DOMAIN map
    THEN [map |-> [p \in DOMAIN map \cup {prefix_of(key)} |->
                      IF p = prefix_of(key) THEN uri ELSE map[p]],
          raised |-> reserved(prefix_of(key))]
    ELSE [map |-> map, raised |-> FALSE]

\* The body of both loops for one (key, uri) pair: the updated map, and
\* whether ET.register_namespace raised after the map was updated.
register_one(map, key, uri) ==
    IF startswith(key, xmlns) /\ uri \notin Range(map)
    THEN [map |-> [p \in DOMAIN map \cup {prefix_of(key)} |->
                      IF p = prefix_of(key) THEN uri ELSE map[p]],
          raised |-> reserved(prefix_of(key))]
    ELSE [map |-> map, raised |-> FALSE]

RECURSIVE register_items(_, _)
register_items(map, items) ==
    IF items = <<>> THEN [map |-> map, raised |-> FALSE]
    ELSE LET r == register_one(map, Head(items)[1], Head(items)[2])
         IN  IF r.raised THEN r ELSE register_items(r.map, Tail(items))

\* XMLCombiner._register_namespaces: [map, raised]; raised = a ValueError
\* left the method, with the map as updated so far.
_register_namespaces(map, element) == register_items(map, visited(element))

(* ------------------------ the files of a run ------------------------ *)
q_u   == <<xmlns \o <<"_", "q">>, <<"u">>>>
q_v   == <<xmlns \o <<"_", "q">>, <<"v">>>>
p_u   == <<xmlns \o <<"_", "p">>, <<"u">>>>
ns1_u == <<xmlns \o <<"_", "n", "s", "1">>, <<"u">>>>
id_1  == <<<<"i", "d">>, <<"1">>>>

c_ == El(<<"c">>, <<>>, <<>>, <<>>)
d_ == El(<<"d">>, <<"t">>, <<id_1>>, <<>>)

\* What a file holds, as its top-level elements: one for a well-formed
\* document, two for a multi-root file (which is not well-formed).
\* (The parser consumes real xmlns declarations; the attributes that reach
\* _register_namespaces are those whose name merely starts with 'xmlns'.)
Content(doc) ==
    CASE doc = "A" -> <<El(<<"a">>, <<>>, <<q_u>>, <<c_, d_>>)>>
      [] doc = "B" -> <<El(<<"a">>, <<>>, <<q_v>>, <<c_, d_>>)>>
      [] doc = "R" -> <<El(<<"a">>, <<>>, <<ns1_u>>,
                           <<El(<<"c">>, <<>>, <<q_v>>, <<>>)>>)>>
      [] doc = "P" -> <<El(<<"e">>, <<>>, <<p_u, id_1>>, <<>>)>>
      [] doc = "multi" -> <<c_, d_>>

Docs == {"A", "B", "R", "P", "multi"}

dot_xml == <<".", "x", "m", "l">>
dot_XML == <<".", "X", "M", "L">>

\* The names a directory of the model may hold: "1.xml", "2.XML", "3.xml", ...
\* and the entry "n.txt", which is always there.
XmlName(i) == <<Alphabet[i + 1]>> \o (IF i % 2 = 0 THEN dot_XML ELSE dot_xml)
OtherName == <<"n", ".", "t", "x", "t">>

\* A directory: its file names, each with what it holds; "n.txt" is no XML.
Directories ==
    UNION {{d \in [{XmlName(i) : i \in 1..n} \cup {OtherName} -> Docs] :
               d[OtherName] = "multi"} : n \in 0..MaxFiles}

lowerch(ch) == CASE ch = "X" -> "x" [] ch = "M" -> "m" [] ch = "L" -> "l"
                 [] OTHER -> ch
\* str.lower()
lower(s) == [i \in 1..Len(s) |-> lowerch(s[i])]

endswith(s, suffix) ==
    Len(s) >= Len(suffix) /\ SubSeq(s, Len(s) - Len(suffix) + 1, Len(s)) = suffix

RECURSIVE insertName(_, _)
insertName(n, names) ==
    IF names = <<>> THEN <<n>>
    ELSE IF StrLess(n, Head(names)) THEN <<n>> \o names
         ELSE <<Head(names)>> \o insertName(n, Tail(names))

RECURSIVE sortedNames(_)
\* sorted(xml_files): paths of one directory compare as their names do.
sortedNames(names) ==
    IF names = <<>> THEN <<>>
    ELSE insertName(Head(names), sortedNames(Tail(names)))

RECURSIVE filterXml(_)
filterXml(listing) ==
    IF listing = <<>> THEN <<>>
    ELSE (IF endswith(lower(Head(listing)), dot_xml) THEN <<Head(listing)>>
          ELSE <<>>) \o filterXml(Tail(listing))

\* Mutant: every name of the directory is kept.
get_xml_files_unfiltered(listing) == sortedNames(listing)

\* Mutant: the list is returned in the order os.listdir gave it.
get_xml_files_unsorted(listing) == filterXml(listing)

\* XMLCombiner.get_xml_files on the order os.listdir returned the names in.
get_xml_files(listing) == sortedNames(filterXml(listing))

\* os.listdir: the names of the directory in an arbitrary order.
Listings(names) ==
    {l \in [1..Cardinality(names) -> names] :
        \A i, j \in 1..Cardinality(names) : i # j => l[i] # l[j]}

(* ------------------------------ state ------------------------------- *)
VARIABLES
    \* the environment and the constructor's arguments
    input_ok,            \* input_folder exists and is a directory
    fs,                  \* the directory: file name -> what the file holds
    root_element_name, validate_schema, deduplicate, preserve_structure,
    max_retries,
    \* the fields of XMLCombiner
    combined_root, seen_elements, namespace_map, processed_files, failed_files,
    \* where run() is
    pc,                  \* the phase of the run
    xml_files,           \* the list combine_xml_files iterates
    idx,                 \* position of the for loop of combine_xml_files
    stage,               \* inside _process_xml_file: "validate" or "attempt"
    attempt,             \* the loop variable of the retry loop
    result,              \* what run() returned: "none" while it runs
    \* the history of the run
    handed,              \* the files handed to _process_xml_file, in order
    entry,               \* root children, seen_elements, namespace_map at the
                         \* entry of the latest call of _process_xml_file
    returned,            \* per call of _process_xml_file that returned: the
                         \* file and the value returned
    last,                \* the latest of these calls: whether it passed
                         \* _validate_xml, the iterations of its retry loop,
                         \* the children combined_root gained
    saved,               \* save_combined_xml was called
    written,             \* combined_tree.write wrote the output file
    check_failed,        \* ET.parse raised ParseError inside _validate_xml
                         \* in the latest call of _process_xml_file
    many_roots,          \* the pre-pass of the latest iteration of the retry
                         \* loop counted more than one root
    \* the fingerprint on its own
    pair,                \* two elements
    fingerprints         \* their _get_element_hash, once computed

config == <<input_ok, fs, root_element_name, validate_schema, deduplicate,
            preserve_structure, max_retries>>
fields == <<combined_root, seen_elements, namespace_map, processed_files,
            failed_files>>
control == <<pc, xml_files, idx, stage, attempt, result>>
history == <<handed, entry, returned, last, saved, written>>
observed == <<check_failed, many_roots>>
hashing == <<pair, fingerprints>>
vars == <<config, fields, control, history, observed, hashing>>

(* --------------------------- tree merger ---------------------------- *)
\* The three collections a merge step works on, and whether an exception
\* left the step.
Merged(root, seen, map, raised) ==
    [root |-> root, seen |-> seen, map |-> map, raised |-> raised]

\* Mutant: the duplicate is not skipped.
_add_element_with_structure_no_skip(m, element) ==
    LET element_hash == _get_element_hash(element)
        seen == IF deduplicate THEN m.seen \cup {element_hash} ELSE m.seen
        r == _register_namespaces(m.map, element)
    IN  IF r.raised
        THEN Merged(m.root, seen, r.map, TRUE)
        ELSE Merged(Append(m.root, element), seen, r.map, FALSE)

\* Mutant: the element is appended before its namespaces are registered, so
\* an attempt that raises there leaves it in the tree.
_add_element_with_structure_appends_first(m, element) ==
    LET element_hash == _get_element_hash(element)
        seen == IF deduplicate THEN m.seen \cup {element_hash} ELSE m.seen
        r == _register_namespaces(m.map, element)
    IN  IF deduplicate /\ element_hash \in m.seen
        THEN Merged(m.root, m.seen, m.map, FALSE)
        ELSE Merged(Append(m.root, element), seen, r.map, r.raised)

\* XMLCombiner._add_element_with_structure
_add_element_with_structure(m, element) ==
    LET element_hash == _get_element_hash(element)
        seen == IF deduplicate THEN m.seen \cup {element_hash} ELSE m.seen
        r == _register_namespaces(m.map, element)
    IN  IF deduplicate /\ element_hash \in m.seen
        THEN Merged(m.root, m.seen, m.map, FALSE)
        ELSE IF r.raised
        THEN Merged(m.root, seen, r.map, TRUE)
        ELSE Merged(Append(m.root, element), seen, r.map, FALSE)

RECURSIVE append_children(_, _)
\* The loop of _add_element_children over the children still to visit.
append_children(m, children) ==
    IF children = <<>> THEN m
    ELSE LET child == Head(children)
             child_hash == _get_element_hash(child)
         IN  IF deduplicate /\ child_hash \in m.seen
             THEN append_children(m, Tail(children))
             ELSE append_children(
                      Merged(Append(m.root, child),
                             IF deduplicate THEN m.seen \cup {child_hash}
                             ELSE m.seen,
                             m.map, FALSE),
                      Tail(children))

\* XMLCombiner._add_element_children
_add_element_children(m, element) ==
    LET r == _register_namespaces(m.map, element)
    IN  IF r.raised THEN Merged(m.root, m.seen, r.map, TRUE)
        ELSE append_children(Merged(m.root, m.seen, r.map, FALSE),
                             element.children)

\* Mutant: the two modes are swapped.
add_element_swapped(m, element) ==
    IF ~preserve_structure THEN _add_element_with_structure(m, element)
    ELSE _add_element_children(m, element)

\* "if self.preserve_structure: ... else: ..."
add_element(m, element) ==
    IF preserve_structure THEN _add_element_with_structure(m, element)
    ELSE _add_element_children(m, element)

\* "self._register_namespaces(root)" followed by the add, as one step that an
\* exception leaves at its first raise.
register_and_add(m, element) ==
    LET r == _register_namespaces(m.map, element)
    IN  IF r.raised THEN Merged(m.root, m.seen, r.map, TRUE)
        ELSE add_element(Merged(m.root, m.seen, r.map, FALSE), element)

(* ------------------------- document parser -------------------------- *)
\* ET.parse(xml_file): the root of a file that holds one top-level element,
\* ParseError for any other file; an OSError can end any read.
ParseOutcomes(doc) ==
    (IF Len(Content(doc)) = 1 THEN {"ok"} ELSE {"ParseError"}) \cup {"OSError"}

\* The SAX pre-pass: len(handler.roots) when parser.parse returns, raised
\* when it raises. expat raises on anything but one top-level element; the
\* driver xml.sax.make_parser() picks may go on and report them all.
SaxOutcomes(doc) ==
    {[raised |-> TRUE, roots |-> 0]}
    \cup (IF Len(Content(doc)) >= 1
          THEN {[raised |-> FALSE, roots |-> Len(Content(doc))]} ELSE {})

getroot(doc) == Content(doc)[1]

_wrapper == <<"_", "w", "r", "a", "p", "p", "e", "r">>

\* Lines 264-277, with the handlers of 279-292: raised = the attempt failed.
standard_parse(m, doc, p3) ==
    IF p3 # "ok" THEN Merged(m.root, m.seen, m.map, TRUE)
    ELSE register_and_add(m, getroot(doc))

\* Lines 229-259. The iterparse branch always raises (Element has no
\* getparent); like a raise of line 253 it is caught at line 260 and the
\* attempt goes on at line 264.
wrapper_merge(m, doc, p2, p3) ==
    IF p2 # "ok" THEN standard_parse(m, doc, p3)
    ELSE LET wrapper == El(root_element_name \o _wrapper, <<>>, <<>>,
                           <<getroot(doc)>>)
             r == _register_namespaces(m.map, wrapper)
         IN  IF r.raised
             THEN standard_parse(Merged(m.root, m.seen, r.map, FALSE), doc, p3)
             ELSE Merged(IF preserve_structure THEN Append(m.root, wrapper)
                         ELSE m.root \o wrapper.children,
                         m.seen, r.map, FALSE)

\* Lines 211-228: more than one root was counted.
multi_root(m, doc, p1, p2, p3) ==
    IF p1 # "ok" THEN wrapper_merge(m, doc, p2, p3)
    ELSE LET a == register_and_add(m, getroot(doc))
         IN  IF a.raised
             THEN wrapper_merge(Merged(a.root, a.seen, a.map, FALSE),
                                doc, p2, p3)
             ELSE a

\* One iteration of the retry loop of _process_xml_file.
parse_attempt(m, doc, sax, p1, p2, p3) ==
    IF ~sax.raised /\ sax.roots > 1 THEN multi_root(m, doc, p1, p2, p3)
    ELSE standard_parse(m, doc, p3)

(* --------------------------- the run -------------------------------- *)
RootNames == {<<"r">>}
Schemas == {"", "schema.xsd"}

Init ==
    /\ input_ok \in BOOLEAN
    /\ fs \in IF input_ok THEN Directories ELSE {<<>>}
    /\ root_element_name \in RootNames
    /\ validate_schema \in Schemas
    /\ deduplicate \in BOOLEAN
    /\ preserve_structure \in BOOLEAN
    /\ max_retries \in 0..MaxRetries
    /\ combined_root = El(root_element_name, <<>>, <<>>, <<>>)
    /\ seen_elements = {}
    /\ namespace_map = <<>>
    /\ processed_files = 0
    /\ failed_files = 0
    /\ pc = "Init"
    /\ xml_files = <<>>
    /\ idx = 1
    /\ stage = "validate"
    /\ attempt = 0
    /\ result = "none"
    /\ handed = <<>>
    /\ entry = Merged(<<>>, {}, <<>>, FALSE)
    /\ returned = <<>>
    /\ last = [valid |-> FALSE, tries |-> 0, grew |-> 0]
    /\ saved = FALSE
    /\ check_failed = FALSE
    /\ many_roots = FALSE
    /\ written = FALSE
    /\ pair = <<>>
    /\ fingerprints = <<>>

\* main() calls run(), run() calls combine_xml_files().
Start ==
    /\ pc = "Init"
    /\ pc' = "Validating"
    /\ UNCHANGED <<hashing, observed, config, fields, xml_files, idx, stage,
                   attempt, result, history>>

\* validate_paths, and "if not self.validate_paths(): return False"
validate_paths ==
    /\ pc = "Validating"
    /\ IF input_ok
       THEN pc' = "Discovering" /\ result' = result
       ELSE pc' = "Failed" /\ result' = "False"
    /\ UNCHANGED <<hashing, observed, config, fields, xml_files, idx, stage,
                   attempt, history>>

\* get_xml_files, "if not xml_files: return False" and the reset of the
\* two counters before the loop.
discover ==
    /\ pc = "Discovering"
    /\ \E listing \in Listings(DOMAIN fs) :
          xml_files' = get_xml_files(listing)
    /\ IF xml_files' = <<>>
       THEN /\ pc' = "Failed" /\ result' = "False"
            /\ UNCHANGED <<processed_files, failed_files>>
       ELSE /\ pc' = "Processing" /\ result' = result
            /\ processed_files' = 0 /\ failed_files' = 0
    /\ UNCHANGED <<hashing, observed, config, combined_root, seen_elements,
                   namespace_map, idx, stage, attempt, history>>

current == fs[xml_files[idx]]

collections == Merged(combined_root.children, seen_elements, namespace_map,
                      FALSE)

\* Mutant: a file counts as processed only when the root gained a child.
file_done_counts_merges(ret, valid, tries, grew) ==
    /\ processed_files' = IF ret /\ grew > 0 THEN processed_files + 1
                          ELSE processed_files
    /\ failed_files' = IF ret THEN failed_files ELSE failed_files + 1
    /\ returned' = Append(returned, [file |-> xml_files[idx], ret |-> ret])
    /\ last' = [valid |-> valid, tries |-> tries, grew |-> grew]
    /\ idx' = idx + 1
    /\ stage' = "validate"
    /\ attempt' = 0

\* Mutant: the else of the loop is lost, failed_files counts every file.
file_done_counts_all_failed(ret, valid, tries, grew) ==
    /\ processed_files' = IF ret THEN processed_files + 1 ELSE processed_files
    /\ failed_files' = failed_files + 1
    /\ returned' = Append(returned, [file |-> xml_files[idx], ret |-> ret])
    /\ last' = [valid |-> valid, tries |-> tries, grew |-> grew]
    /\ idx' = idx + 1
    /\ stage' = "validate"
    /\ attempt' = 0

\* _process_xml_file returns ret to the loop of combine_xml_files, which
\* counts the file and moves on.
file_done(ret, valid, tries, grew) ==
    /\ processed_files' = IF ret THEN processed_files + 1 ELSE processed_files
    /\ failed_files' = IF ret THEN failed_files ELSE failed_files + 1
    /\ returned' = Append(returned, [file |-> xml_files[idx], ret |-> ret])
    /\ last' = [valid |-> valid, tries |-> tries, grew |-> grew]
    /\ idx' = idx + 1
    /\ stage' = "validate"
    /\ attempt' = 0

\* Mutant: the ParseError handler of _validate_xml returns True.
_validate_xml_accepts(exists, p) ==
    IF validate_schema = "" THEN "True"
    ELSE IF ~exists THEN "True"
    ELSE IF p \in {"ok", "ParseError"} THEN "True"
    ELSE "raised"

\* _validate_xml(xml_file), given whether schema_path.exists() and how
\* ET.parse ends: what it returns, or "raised" for an exception that is no
\* ET.ParseError and so leaves the method.
_validate_xml(exists, p) ==
    IF validate_schema = "" THEN "True"
    ELSE IF ~exists THEN "True"
    ELSE IF p = "ok" THEN "True"
    ELSE IF p = "ParseError" THEN "False"
    ELSE "raised"

\* The entry of _process_xml_file: "if not self._validate_xml(xml_file):
\* return False". An exception out of _validate_xml is caught nowhere and
\* ends run() and the process.
process_validate ==
    /\ pc = "Processing" /\ idx <= Len(xml_files) /\ stage = "validate"
    /\ handed' = Append(handed, xml_files[idx])
    /\ entry' = collections
    /\ many_roots' = FALSE
    /\ \E exists \in BOOLEAN, p \in ParseOutcomes(current) :
          /\ check_failed' = (validate_schema # "" /\ exists
                                  /\ p = "ParseError")
          /\ CASE _validate_xml(exists, p) = "True" ->
                     /\ stage' = "attempt" /\ attempt' = 0
                     /\ UNCHANGED <<pc, result, idx, processed_files,
                                    failed_files, returned, last>>
               [] _validate_xml(exists, p) = "False" ->
                     /\ file_done(FALSE, FALSE, 0, 0)
                     /\ UNCHANGED <<pc, result>>
               [] _validate_xml(exists, p) = "raised" ->
                     /\ pc' = "Crashed" /\ result' = "raised"
                     /\ UNCHANGED <<idx, stage, attempt, processed_files,
                                    failed_files, returned, last>>
    /\ UNCHANGED <<hashing, config, combined_root, seen_elements,
                   namespace_map, xml_files, saved, written>>

\* The ways one iteration can end on a file, over what the reads of the file
\* return; the parses of lines 221 and 236 are reached only when more than
\* one root was counted.
AttemptResults(m, doc) ==
    {[many |-> ~o[1].raised /\ o[1].roots > 1,
      res |-> parse_attempt(m, doc, o[1], o[2], o[3], o[4])] :
        o \in {x \in SaxOutcomes(doc) \X ParseOutcomes(doc)
                      \X ParseOutcomes(doc) \X ParseOutcomes(doc) :
                  x[1].raised \/ x[1].roots <= 1
                      => x[2] = "OSError" /\ x[3] = "OSError"}}

\* Mutant: in preserve mode the parsed root takes the place of the combined
\* root instead of being appended to it.
process_attempt_replaces_root ==
    /\ pc = "Processing" /\ idx <= Len(xml_files) /\ stage = "attempt"
    /\ attempt < max_retries
    /\ \E a \in AttemptResults(collections, current) :
          LET m == a.res
          IN  /\ many_roots' = a.many
              /\ combined_root' =
                    IF /\ preserve_structure
                       /\ Len(m.root) > Len(combined_root.children)
                    THEN m.root[Len(m.root)]
                    ELSE [combined_root EXCEPT !.children = m.root]
              /\ seen_elements' = m.seen
              /\ namespace_map' = m.map
              /\ IF ~m.raised
                 THEN file_done(TRUE, TRUE, attempt + 1,
                                Len(m.root) - Len(entry.root))
                 ELSE IF attempt < max_retries - 1
                 THEN /\ attempt' = attempt + 1
                      /\ UNCHANGED <<idx, stage, processed_files,
                                     failed_files, returned, last>>
                 ELSE file_done(FALSE, TRUE, attempt + 1,
                                Len(m.root) - Len(entry.root))
    /\ UNCHANGED <<hashing, config, check_failed, pc, xml_files, result,
                   handed, entry, saved, written>>

\* Mutant: a failed iteration is repeated without counting it.
process_attempt_uncounted ==
    /\ pc = "Processing" /\ idx <= Len(xml_files) /\ stage = "attempt"
    /\ attempt < max_retries
    /\ \E a \in AttemptResults(collections, current) :
          LET m == a.res
          IN  /\ many_roots' = a.many
              /\ combined_root' = [combined_root EXCEPT !.children = m.root]
              /\ seen_elements' = m.seen
              /\ namespace_map' = m.map
              /\ IF ~m.raised
                 THEN file_done(TRUE, TRUE, attempt + 1,
                                Len(m.root) - Len(entry.root))
                 ELSE /\ attempt' = attempt
                      /\ UNCHANGED <<idx, stage, processed_files,
                                     failed_files, returned, last>>
    /\ UNCHANGED <<hashing, config, check_failed, pc, xml_files, result,
                   handed, entry, saved, written>>

\* One iteration of "for attempt in range(self.max_retries)".
process_attempt ==
    /\ pc = "Processing" /\ idx <= Len(xml_files) /\ stage = "attempt"
    /\ attempt < max_retries
    /\ \E a \in AttemptResults(collections, current) :
          LET m == a.res
          IN  /\ many_roots' = a.many
              /\ combined_root' = [combined_root EXCEPT !.children = m.root]
              /\ seen_elements' = m.seen
              /\ namespace_map' = m.map
              /\ IF ~m.raised
                 THEN file_done(TRUE, TRUE, attempt + 1,
                                Len(m.root) - Len(entry.root))
                 ELSE IF attempt < max_retries - 1
                 THEN /\ attempt' = attempt + 1
                      /\ UNCHANGED <<idx, stage, processed_files,
                                     failed_files, returned, last>>
                 ELSE file_done(FALSE, TRUE, attempt + 1,
                                Len(m.root) - Len(entry.root))
    /\ UNCHANGED <<hashing, config, check_failed, pc, xml_files, result,
                   handed, entry, saved, written>>

\* The "return False" after the retry loop: reached when the loop body never
\* ran (max_retries <= 0).
process_no_attempt ==
    /\ pc = "Processing" /\ idx <= Len(xml_files) /\ stage = "attempt"
    /\ attempt >= max_retries
    /\ file_done(FALSE, TRUE, attempt, 0)
    /\ UNCHANGED <<hashing, observed, config, combined_root, seen_elements,
                   namespace_map, pc, xml_files, result, handed, entry, saved,
                   written>>

\* Mutant: the return of combine_xml_files sits inside the loop.
finish_loop_inside_loop ==
    /\ pc = "Processing" /\ stage = "validate" /\ returned # <<>>
    /\ IF processed_files > 0
       THEN pc' = "Serializing" /\ result' = result
       ELSE pc' = "Failed" /\ result' = "False"
    /\ UNCHANGED <<hashing, observed, config, fields, xml_files, idx, stage,
                   attempt, history>>

\* Mutant: combine_xml_files returns True whatever was processed.
finish_loop_always_true ==
    /\ pc = "Processing" /\ idx > Len(xml_files)
    /\ pc' = "Serializing" /\ result' = result
    /\ UNCHANGED <<hashing, observed, config, fields, xml_files, idx, stage,
                   attempt, history>>

\* The end of combine_xml_files, "return self.processed_files > 0", and in
\* run() "if not self.combine_xml_files(): return False".
finish_loop ==
    /\ pc = "Processing" /\ idx > Len(xml_files)
    /\ IF processed_files > 0
       THEN pc' = "Serializing" /\ result' = result
       ELSE pc' = "Failed" /\ result' = "False"
    /\ UNCHANGED <<hashing, observed, config, fields, xml_files, idx, stage,
                   attempt, history>>

\* save_combined_xml, whose result run() returns. ET.register_namespace
\* raises on a reserved prefix of namespace_map; the write itself may fail.
save_combined_xml ==
    /\ pc = "Serializing"
    /\ saved' = TRUE
    /\ \E write_ok \in BOOLEAN :
          written' = (write_ok /\ \A p \in DOMAIN namespace_map : ~reserved(p))
    /\ IF written'
       THEN pc' = "Done" /\ result' = "True"
       ELSE pc' = "Failed" /\ result' = "False"
    /\ UNCHANGED <<hashing, observed, config, fields, xml_files, idx, stage,
                   attempt, handed, entry, returned, last>>

Next ==
    \/ Start
    \/ validate_paths
    \/ discover
    \/ process_validate
    \/ process_attempt
    \/ process_no_attempt
    \/ finish_loop
    \/ save_combined_xml

Spec == Init /\ [][Next]_vars

\* run() is one sequential thread with no blocking call: while a step is
\* possible, one is taken.
FairSpec == Spec /\ WF_vars(Next)

(* ---------------------- the fingerprint alone ----------------------- *)
k_v == <<<<"k">>, <<"v">>>>
i_w == <<<<"i">>, <<"w">>>>

Leaves ==
    {El(tag, text, attrib, <<>>) :
        tag \in {<<"b">>, <<"c">>}, text \in {<<>>, <<"t">>},
        attrib \in {<<>>, <<k_v>>, <<k_v, i_w>>, <<i_w, k_v>>}}
Plain == {El(tag, <<>>, <<>>, <<>>) : tag \in {<<"b">>, <<"c">>}}
Nested == {El(<<"b">>, <<>>, <<>>, <<child>>) : child \in Plain}
Parents ==
    {El(<<"a">>, <<>>, <<>>, children) :
        children \in UNION {[1..n -> Plain \cup Nested] : n \in 1..2}}

\* The elements the fingerprint is computed on.
Elements == Leaves \cup Nested \cup Parents

InitHash ==
    /\ input_ok = FALSE
    /\ fs = <<>>
    /\ root_element_name \in RootNames
    /\ validate_schema = ""
    /\ deduplicate = TRUE
    /\ preserve_structure = TRUE
    /\ max_retries = 0
    /\ combined_root = El(root_element_name, <<>>, <<>>, <<>>)
    /\ seen_elements = {}
    /\ namespace_map = <<>>
    /\ processed_files = 0
    /\ failed_files = 0
    /\ pc = "Init"
    /\ xml_files = <<>>
    /\ idx = 1
    /\ stage = "validate"
    /\ attempt = 0
    /\ result = "none"
    /\ handed = <<>>
    /\ entry = Merged(<<>>, {}, <<>>, FALSE)
    /\ returned = <<>>
    /\ last = [valid |-> FALSE, tries |-> 0, grew |-> 0]
    /\ saved = FALSE
    /\ check_failed = FALSE
    /\ many_roots = FALSE
    /\ written = FALSE
    /\ pair \in Elements \X Elements
    /\ fingerprints = <<>>

\* _get_element_hash on both elements of the pair.
fingerprint ==
    /\ fingerprints = <<>>
    /\ fingerprints' = <<_get_element_hash(pair[1]), _get_element_hash(pair[2])>>
    /\ UNCHANGED <<config, fields, control, history, observed, pair>>

SpecHash == InitHash /\ [][fingerprint]_vars

(* ============================ the claims ============================ *)
terminal == pc \in {"Done", "Failed", "Crashed"}

\* No call of _process_xml_file is in progress: every file handed has returned.
between_files == Len(returned) = Len(handed)

children == combined_root.children

\* C1: once a prefix is registered in namespace_map, no later step changes
\* the URI it maps to or removes it (first registration wins).
C1_FirstRegistrationWins ==
    [][\A p \in DOMAIN namespace_map :
          p \in DOMAIN namespace_map' /\ namespace_map'[p] = namespace_map[p]]_vars

\* C2: with deduplication enabled no two direct children of the combined
\* root have the same fingerprint, and the fingerprint of every child is in
\* seen_elements.
C2_NoDuplicateChildren ==
    deduplicate =>
        /\ \A i, j \in 1..Len(children) :
              i # j => _get_element_hash(children[i]) # _get_element_hash(children[j])
        /\ \A i \in 1..Len(children) :
              _get_element_hash(children[i]) \in seen_elements

\* A second file whose candidate nodes were all seen before was processed
\* and added nothing, while the first file's nodes are in the output.
C2_Witness ==
    /\ deduplicate
    /\ Len(returned) = 2 /\ returned[1].ret /\ returned[2].ret
    /\ between_files
    /\ last.grew = 0
    /\ Len(children) >= 1

RECURSIVE SameElement(_, _)
\* Same tag, same text, same attribute mapping, same ordered children.
SameElement(a, b) ==
    /\ a.tag = b.tag
    /\ a.text = b.text
    /\ Range(a.attrib) = Range(b.attrib)
    /\ Len(a.children) = Len(b.children)
    /\ \A i \in 1..Len(a.children) : SameElement(a.children[i], b.children[i])

\* C3: the fingerprints of two elements are equal if and only if the
\* elements have the same tag, text, attribute mapping and ordered children.
C3_FingerprintIffSame ==
    fingerprints # <<>> =>
        ((fingerprints[1] = fingerprints[2]) <=> SameElement(pair[1], pair[2]))

\* C4: when a run that discovered files has ended, every discovered file was
\* handed to _process_xml_file exactly once, in sorted order.
C4_EveryFileHanded ==
    (terminal /\ xml_files # <<>>) => handed = xml_files

\* C5: when the latest call of _process_xml_file returned False, the
\* children of combined_root, seen_elements and namespace_map are what they
\* were at its entry.
C5_FailedFileLeavesNothing ==
    (between_files /\ returned # <<>> /\ ~returned[Len(returned)].ret)
        => collections = entry

\* The nodes a file offers to the merge: its root in preserve mode, the
\* children of its root in flatten mode.
Candidates(doc) ==
    IF preserve_structure THEN 1 ELSE Len(getroot(doc).children)

lastCall == returned[Len(returned)]

CountRet(ret) == Cardinality({i \in 1..Len(returned) : returned[i].ret = ret})

\* The for loop of combine_xml_files has ended.
loop_ended ==
    xml_files # <<>> /\ idx > Len(xml_files) /\ pc # "Crashed"

\* C7: processed_files + failed_files never exceeds the number of discovered
\* files, each file that returned is counted in exactly one of the two, and
\* the sum is the number of discovered files when the loop has ended.
C7_CountersAddUp ==
    /\ processed_files + failed_files <= Len(xml_files)
    /\ processed_files = CountRet(TRUE)
    /\ failed_files = CountRet(FALSE)
    /\ loop_ended => processed_files + failed_files = Len(xml_files)

\* The loop ended with files of both kinds counted.
C7_Witness ==
    loop_ended /\ processed_files > 0 /\ failed_files > 0

\* main(): 0 if combiner.run() else 1; an exception out of run() ends the
\* process with status 1.
exit_code == IF result = "True" THEN 0 ELSE 1

\* C8: run() returned True exactly when a file was processed and the write
\* succeeded, and a run all of whose files failed has processed_files = 0,
\* returns False and never calls save_combined_xml.
C8_SuccessIffProcessedAndWritten ==
    /\ terminal =>
          ((result = "True") <=> (processed_files > 0 /\ written))
    /\ (exit_code = 0) <=> (pc = "Done")
    /\ (loop_ended /\ CountRet(TRUE) = 0) =>
          /\ processed_files = 0
          /\ ~saved /\ ~written
          /\ terminal => result = "False"

\* run() returned True after a write, with a failed file in the run.
C8_Witness ==
    pc = "Done" /\ result = "True" /\ written /\ failed_files > 0

RECURSIVE Expected(_)
\* What the files that returned True offer to the merge, in file order.
Expected(rets) ==
    IF rets = <<>> THEN <<>>
    ELSE (IF ~Head(rets).ret THEN <<>>
          ELSE IF preserve_structure THEN <<getroot(fs[Head(rets).file])>>
          ELSE getroot(fs[Head(rets).file]).children)
         \o Expected(Tail(rets))

\* C9: with deduplication disabled the children of the combined root are, in
\* file order, the roots of the processed files (preserve mode) or the
\* children of these roots (flatten mode).
C9_ChildrenAreTheFiles ==
    (~deduplicate /\ between_files) => children = Expected(returned)

\* Two files, each a root with two children, flattened into four children.
C9_Witness ==
    /\ ~deduplicate /\ ~preserve_structure /\ loop_ended
    /\ Len(returned) = 2 /\ returned[1].ret /\ returned[2].ret
    /\ Len(children) = 4
    /\ \A i \in 1..2 : Len(getroot(fs[returned[i].file]).children) = 2

\* The directory holds no name that ends in .xml, whatever the case.
no_xml_files == \A n \in DOMAIN fs : ~endswith(lower(n), dot_xml)

\* C10: a run over a valid directory with no .xml file fails without handing
\* a file to the parser and without calling save_combined_xml.
C10_NoInputFiles ==
    (input_ok /\ no_xml_files) =>
        /\ pc \in {"Init", "Validating", "Discovering", "Failed"}
        /\ handed = <<>> /\ ~saved /\ ~written
        /\ pc = "Failed" => result = "False" /\ exit_code = 1

\* Discovery found nothing in a directory that holds a file, and run()
\* returned False.
C10_Witness ==
    /\ input_ok /\ no_xml_files /\ DOMAIN fs # {}
    /\ pc = "Failed" /\ result = "False"

\* The phases in the order a run may pass them; an exception that leaves
\* run() ("Crashed") ends the run as a failure does.
Rank(phase) ==
    CASE phase = "Init" -> 0
      [] phase = "Validating" -> 1
      [] phase = "Discovering" -> 2
      [] phase = "Processing" -> 3
      [] phase = "Serializing" -> 4
      [] phase \in {"Done", "Failed", "Crashed"} -> 5

\* C11: a run passes its phases only in the order Init, Validating,
\* Discovering, Processing, Serializing, then Done or a failed end; it never
\* goes back; files are discovered only from a valid input path, handed to
\* the parser only after discovery, and the write starts only after every
\* discovered file has returned.
C11_PhaseOrder ==
    [][/\ Rank(pc') >= Rank(pc)
       /\ pc' # pc =>
             \/ Rank(pc') = Rank(pc) + 1 /\ pc # "Serializing"
             \/ pc = "Serializing" /\ pc' \in {"Done", "Failed"}
             \/ pc \in {"Validating", "Discovering", "Processing"}
                /\ pc' = "Failed"
             \/ pc = "Processing" /\ pc' = "Crashed"
       /\ pc = "Validating" /\ pc' = "Discovering" => input_ok
       /\ xml_files' # xml_files => pc = "Discovering" /\ input_ok
       /\ handed' # handed => pc = "Processing" /\ input_ok
       /\ pc' = "Serializing" /\ pc # "Serializing" =>
             Len(returned) = Len(xml_files) /\ handed = xml_files
       /\ saved' /\ ~saved => pc = "Serializing" /\ handed = xml_files
      ]_vars

\* A run that passed every phase, with two files processed before the write.
C11_Witness ==
    pc = "Done" /\ saved /\ Len(returned) = 2 /\ Len(xml_files) = 2

\* The XML file names of the directory, whatever order they are listed in.
XmlNames == {n \in DOMAIN fs : endswith(lower(n), dot_xml)}

\* s lists the names exactly once each, in increasing order of the paths;
\* there is one such list.
IsSortedListOf(s, names) ==
    /\ Len(s) = Cardinality(names)
    /\ Range(s) = names
    /\ \A i, j \in 1..Len(s) : i < j => StrLess(s[i], s[j])

discovered == input_ok /\ pc \notin {"Init", "Validating", "Discovering"}

\* C12: the outcome of a run does not depend on the order the directory
\* listing returns the files in: every listing of the same directory gives
\* the list a run iterates, that list is the sorted list of the XML paths,
\* and the files are handed to the parser in that order; the listing is
\* read nowhere else, so two runs that agree on everything but the listing
\* take the same steps.
C12_ListingOrderIrrelevant ==
    discovered =>
        /\ IsSortedListOf(xml_files, XmlNames)
        /\ Len(handed) <= Len(xml_files)
        /\ handed = SubSeq(xml_files, 1, Len(handed))
        /\ pc = "Processing" /\ handed = <<>> =>
              \A listing \in Listings(DOMAIN fs) :
                  get_xml_files(listing) = xml_files

\* Discovery has returned a list that two listings in different orders, one
\* of them not sorted, both give, and both files were merged in that order.
C12_Witness ==
    /\ discovered /\ Len(xml_files) = 2 /\ Len(returned) = 2
    /\ \A k \in 1..2 : returned[k].ret
    /\ \E l1, l2 \in Listings(DOMAIN fs) :
          /\ filterXml(l1) # filterXml(l2)
          /\ filterXml(l1) # xml_files
          /\ get_xml_files(l1) = xml_files /\ get_xml_files(l2) = xml_files

\* C13: with a schema configured, a file whose well-formedness check in
\* _validate_xml fails is counted as failed after that one check: its call
\* returns False with no iteration of the retry loop, whatever max_retries
\* is, nothing of it is merged, and the run goes on with the next file.
C13_ValidationFailureNotRetried ==
    check_failed =>
        /\ validate_schema # ""
        /\ between_files /\ returned # <<>>
        /\ lastCall.file = handed[Len(handed)]
        /\ ~lastCall.ret /\ ~last.valid
        /\ last.tries = 0 /\ last.grew = 0
        /\ collections = entry
        /\ failed_files = CountRet(FALSE) /\ failed_files >= 1
        /\ pc # "Crashed"
        /\ Len(returned) < Len(xml_files) =>
              pc = "Processing" /\ idx = Len(returned) + 1
                  /\ stage = "validate"

\* The first of two files has just failed the check with two retries
\* configured, and the loop stands at the second file.
C13_Witness ==
    /\ check_failed /\ max_retries = 2
    /\ Len(xml_files) = 2 /\ Len(returned) = 1 /\ ~returned[1].ret
    /\ pc = "Processing" /\ idx = 2 /\ failed_files = 1

\* What is left of a call of _process_xml_file: the check and every
\* iteration of the retry loop before it has started, the iterations left
\* and the return after it.
CallLeft ==
    IF stage = "validate" THEN max_retries + 3 ELSE max_retries - attempt + 1

\* What is left of the for loop of combine_xml_files.
LoopLeft ==
    IF idx > Len(xml_files) THEN 0
    ELSE (Len(xml_files) - idx) * (max_retries + 3) + CallLeft

\* A bound on the steps left to a run: it counts the phases ahead, each for
\* more than a whole loop over the files.
StepsLeft == (5 - Rank(pc)) * ((MaxFiles + 1) * (MaxRetries + 3) + 1) + LoopLeft

\* A run that has not ended has a step to take. For process_attempt the
\* condition is written out: its guard, and an outcome of the iteration to
\* take; every other conjunct of it is an assignment.
has_step ==
    \/ ENABLED <<Start \/ validate_paths \/ discover \/ process_validate
                 \/ process_no_attempt \/ finish_loop \/ save_combined_xml>>_vars
    \/ /\ pc = "Processing" /\ idx <= Len(xml_files) /\ stage = "attempt"
       /\ attempt < max_retries
       /\ AttemptResults(collections, current) # {}

\* C14: every run ends: whatever the files, max_retries and the outcomes of
\* the reads, the run reaches Done or a failed end; no file is retried
\* without bound and the loop over the files ends. Every step of a run
\* lowers a natural number, so a run has finitely many steps, and a run
\* that has not ended has a step to take, which it then takes.
C14_RunTerminates ==
    /\ [](StepsLeft \in Nat /\ (terminal \/ has_step))
    /\ [][StepsLeft' < StepsLeft]_vars

\* A run that ended after a file used up both of its retries.
C14_Witness ==
    /\ terminal /\ max_retries = 2 /\ Len(xml_files) = 2
    /\ Len(returned) = 2 /\ ~lastCall.ret /\ last.tries = 2

\* C15: in every state of a run, from construction to the write, the
\* combined root is the element created by the constructor: its tag is the
\* configured root-element name, and it has no text and no attribute; a
\* merge changes only its children.
C15_RootKeepsItsName ==
    /\ combined_root.tag = root_element_name
    /\ combined_root.text = <<>>
    /\ combined_root.attrib = <<>>

\* The tree was written after merges in preserve mode had given the root two
\* children, none of which has the root's tag.
C15_Witness ==
    /\ written /\ preserve_structure /\ Len(children) = 2
    /\ \A k \in 1..2 : children[k].tag # root_element_name

\* The synthetic element the multi-root path is to build from a file.
wrapper_of(file) ==
    El(root_element_name \o _wrapper, <<>>, <<>>, Content(fs[file]))

\* C16: a file in which the pre-pass counted more than one top-level
\* element is merged as one element named <root_element_name>_wrapper that
\* holds all of the file's top-level elements: its call returns True, and in
\* preserve mode the combined root gains exactly that wrapper.
C16_MultiRootWrapped ==
    between_files /\ returned # <<>> /\ many_roots =>
        /\ lastCall.ret
        /\ preserve_structure =>
              /\ Len(children) = Len(entry.root) + 1
              /\ children[Len(children)] = wrapper_of(lastCall.file)

\* The namespace declarations _register_namespaces meets in a file.
declarations(file) ==
    LET items == visited(getroot(fs[file]))
    IN  {items[k] : k \in {n \in 1..Len(items) : startswith(items[n][1], xmlns)}}

\* C17: a declaration whose prefix was no key of namespace_map when
\* _register_namespaces met it is registered with its URI, also when that
\* URI is already registered under another prefix: after a call that
\* returned True, every prefix the file declares and the map did not hold
\* at the entry of the call is a key, bound to the declared URI.
C17_NewPrefixRegistered ==
    between_files /\ returned # <<>> /\ lastCall.ret =>
        \A d \in declarations(lastCall.file) :
            prefix_of(d[1]) \notin DOMAIN entry.map =>
                /\ prefix_of(d[1]) \in DOMAIN namespace_map
                /\ namespace_map[prefix_of(d[1])] = d[2]

\* C18: namespace_map is injective in every state: no two prefixes are
\* bound to the same URI.
C18_NamespaceMapInjective ==
    \A p1, p2 \in DOMAIN namespace_map :
        namespace_map[p1] = namespace_map[p2] => p1 = p2

\* A file was processed whose declaration was left out because its URI is
\* bound to another prefix, and the map binds that other prefix.
C18_Witness ==
    /\ between_files /\ returned # <<>> /\ lastCall.ret
    /\ \E d \in declarations(lastCall.file) :
          /\ prefix_of(d[1]) \notin DOMAIN namespace_map
          /\ \E p \in DOMAIN namespace_map : namespace_map[p] = d[2]

\* C19: processed_files counts the files that parsed, not the nodes merged:
\* a file whose call returned True is counted also when the combined root
\* gained no child from it, and once the loop has ended with such a file
\* counted, combine_xml_files returns True and the run goes on to the write.
C19_ProcessedCountsParses ==
    /\ between_files /\ returned # <<>> /\ lastCall.ret /\ last.grew = 0 =>
          /\ processed_files = CountRet(TRUE)
          /\ processed_files >= 1
    /\ loop_ended /\ pc # "Processing" /\ CountRet(TRUE) >= 1 =>
          /\ processed_files >= 1
          /\ pc \in {"Serializing", "Done", "Failed"}
          /\ pc = "Failed" => saved
          /\ result # "False" \/ saved

\* The write was reached, and done, with a root that has no child: the one
\* file of the run parsed and was counted.
C19_Witness ==
    /\ saved /\ written /\ pc = "Done"
    /\ children = <<>>
    /\ Len(returned) = 1 /\ lastCall.ret /\ last.grew = 0
    /\ processed_files = 1

\* Every candidate of the second file was skipped as a duplicate, and the
\* file was counted.
C19_AllDuplicates ==
    /\ deduplicate /\ Len(returned) = 2 /\ between_files
    /\ lastCall.ret /\ last.grew = 0 /\ children # <<>>
    /\ processed_files = 2 /\ pc = "Serializing"

=============================================================================
